---------------------------- MODULE Spec2Model ----------------------------
(***************************************************************************)
(* Robo AI Auto Book Generator: the storybook viewer (spread navigation,   *)
(* pagination measurement, the export pipeline with its lazily loaded      *)
(* docx library) and the chapter generation of the App component.          *)
(*                                                                         *)
(* The browser runs handlers to completion: one action is one task of the  *)
(* event loop (a click handler, a timer callback, a load event, a promise  *)
(* settlement together with the continuations it resumes).                 *)
(*                                                                         *)
(* The state falls into groups: the viewer's navigation and pagination     *)
(* (navVars), the viewer's exports and the docx loader (expVars), the      *)
(* App's chapters (genVars), the App's assembled book, history and viewer  *)
(* mounting (appVars), what the viewer renders and its exports write      *)
(* (docVars), and the App's draft with its copy in local storage           *)
(* (draftVars).  Each specification moves the groups its actions belong    *)
(* to; the other groups stay as its initial state left them.               *)
(***************************************************************************)
EXTENDS Integers, Sequences, FiniteSets, Bags

VARIABLES
    \* ---- StorybookViewer: navigation and pagination
    currentPage,        \* useState(0): 0 cover, k spread k
    totalContentPages,  \* useState(1)
    pageHeight,         \* useState(0)
    isAnimating,        \* useState(false)
    pageTimers,         \* pending changePage timeouts, each holding its newPage
    contentHeight,      \* contentMeasureRef.current.scrollHeight (layout)
    areaHeight,         \* measureElement.clientHeight minus its paddings (layout)
    measured,           \* history: <<h, v>> of the last measurement that was not skipped
    navRequests,        \* history: [op, from] of each pending changePage, in pageTimers' order
    turns,              \* history: [op, from] of the last two page turns completed
    nextRun,            \* history: <<n>> after n next() turns in a row from Cover, else <<>>
    \* ---- StorybookViewer: exports and the docx loader
    exporting,          \* useState<string | null>(null)
    exports,            \* the handleExport calls that have not returned yet
    docxPromise,        \* module-level singleton: 0 is null, n the promise of fetch n
    windowDocx,         \* window.docx is defined
    scripts,            \* fetches whose script element has not fired load/error
    fetchSeq,           \* number of script elements inserted so far
    hasCover,           \* the frontCoverImage prop is not empty
    lastFailure,        \* history: <<format, alerts raised>> of the last failed export
    justReturned,       \* history: [fmt, ok] if the last step of an export was a return, else <<>>
    \* ---- App: chapter generation
    chapters,           \* useState<Chapter[]>: content and status per chapter
    isLoading,          \* useState(false)
    error,              \* useState<string | null>(null), as "is set"
    gens,               \* bag of the handleGenerateChapter calls awaiting the service
    run,                \* the handleGenerateAllChapters call in flight: its array and place
    tocCall,            \* where handleGenerateTOC is suspended
    \* ---- App: the assembled book, the history and the viewer's mounting
    finalBookContent,   \* useState(''): 0 is '', n the manuscript of book n
    isViewerOpen,       \* useState(false)
    bookHistory,        \* useState<BookHistoryEntry[]>([]): the entries' books, newest first
    viewingHistory,     \* useState<BookHistoryEntry | null>(null): 0 is null, n the entry of book n
    assembling,         \* handleAssembleBook calls awaiting generatePreface
    bookSeq,            \* number of manuscripts assembled so far
    \* ---- StorybookViewer: what the exports write
    bookChars,          \* the bookContent prop, character by character
    docChildren,        \* docChildren of the last exportToDOCX, <<>> before the first
    mdFile,             \* <<bytes>> of the blob of the last exportToMD, <<>> before the first
    pdfRows,            \* per line of bookContent, the rows splitTextToSize wraps its text into
    pdfDoc,             \* <<[pages, placed]>> of the last exportToPDF, <<>> before the first
    htmlContent,        \* useState(''): the HTML the viewer renders and measures
    \* ---- App: the draft and its copy in local storage
    title,              \* useState('')
    progress            \* localStorage 'roboAiBookGenerator_progress': <<>> is null, <<s>> the JSON of s

navVars == <<currentPage, totalContentPages, pageHeight, isAnimating, pageTimers,
             contentHeight, areaHeight, measured, navRequests, turns, nextRun>>
expVars == <<exporting, exports, docxPromise, windowDocx, scripts, fetchSeq, hasCover,
             lastFailure, justReturned>>
genVars == <<chapters, isLoading, error, gens, run, tocCall>>
appVars == <<finalBookContent, isViewerOpen, bookHistory, viewingHistory, assembling, bookSeq>>
docVars == <<bookChars, docChildren, mdFile, pdfRows, pdfDoc, htmlContent>>
draftVars == <<title, progress>>
vars == <<navVars, expVars, genVars, appVars, docVars, draftVars>>

--------------------------------------------------------------------------
(* Bounds of the model. *)

\* largest scrollHeight of the rendered content
MaxExtent == 4
\* largest content-area height of a page
MaxViewport == 2
\* most handleExport calls that have not returned, at any one time
MaxInFlight == 2
\* most script elements the loader inserts in one behaviour
MaxFetches == 2
\* most chapter titles the service returns for a table of contents
NumChapters == 2
\* most generateChapterContent requests in flight at any one time
MaxGens == 1
\* most manuscripts assembled in one behaviour
MaxBooks == 2
\* most lines of a manuscript given to the exports
MaxLines == 2

--------------------------------------------------------------------------
(* Pagination: calculatePages. *)

\* variant: Math.floor in place of Math.ceil
MathCeilFloor(a, b) == a \div b
\* Math.ceil(a / b) for a >= 0, b > 0, computed by floor and remainder
MathCeil(a, b) == (a \div b) + (IF a % b = 0 THEN 0 ELSE 1)

\* variant: setTotalContentPages(pages)
PagesOrOneRaw(pages) == pages
\* pages > 0 ? pages : 1
PagesOrOne(pages) == IF pages > 0 THEN pages ELSE 1

\* const totalSpreads = Math.ceil(totalContentPages / 2)
totalSpreads == MathCeil(totalContentPages, 2)

\* calculatePages run against a layout with scrollHeight h and content area
\* height v: a content area that is not positive skips the measurement.
\* variant: the measurement is applied whatever the content-area height is
CalculatePagesUnguarded(h, v) ==
    /\ pageHeight' = v
    /\ totalContentPages' = IF v > 0 THEN PagesOrOne(MathCeil(h, v)) ELSE 1
    /\ measured' = IF v > 0 THEN <<h, v>> ELSE measured
CalculatePages(h, v) ==
    IF v > 0
    THEN /\ pageHeight' = v
         /\ totalContentPages' = PagesOrOne(MathCeil(h, v))
         /\ measured' = <<h, v>>
    ELSE UNCHANGED <<pageHeight, totalContentPages, measured>>

\* The rendered content's height changes (htmlContent set, fonts loaded) before
\* any of the triggers has measured it.
Layout(h) ==
    /\ h # contentHeight
    /\ contentHeight' = h
    /\ UNCHANGED <<currentPage, totalContentPages, pageHeight, isAnimating, pageTimers,
                   areaHeight, measured, navRequests, turns, nextRun>>
    /\ UNCHANGED <<expVars, genVars, appVars, docVars, draftVars>>

\* history: a run of next() turns from Cover is one made under one PageCount
RunAfterMeasure ==
    IF totalContentPages' = totalContentPages THEN nextRun
    ELSE IF currentPage = 0 /\ pageTimers = <<>> THEN <<0>> ELSE <<>>

\* document.fonts.ready or the 150 ms timer: doCalculation
SettleTick ==
    /\ CalculatePages(contentHeight, areaHeight)
    /\ nextRun' = RunAfterMeasure
    /\ UNCHANGED <<currentPage, isAnimating, pageTimers, contentHeight, areaHeight,
                   navRequests, turns>>
    /\ UNCHANGED <<expVars, genVars, appVars, docVars, draftVars>>

\* the window is resized (the layout changes) and handleResize measures it
HandleResize(h, v) ==
    /\ <<h, v>> # <<contentHeight, areaHeight>>
    /\ contentHeight' = h
    /\ areaHeight' = v
    /\ CalculatePages(h, v)
    /\ nextRun' = RunAfterMeasure
    /\ UNCHANGED <<currentPage, isAnimating, pageTimers, navRequests, turns>>
    /\ UNCHANGED <<expVars, genVars, appVars, docVars, draftVars>>

--------------------------------------------------------------------------
(* Spread navigation: changePage, handleNextPage, handlePrevPage. *)

\* variant: the timeout is set and the content stays visible
ChangePageVisible(newPage) ==
    /\ isAnimating' = isAnimating
    /\ pageTimers' = Append(pageTimers, newPage)
\* setIsAnimating(true); setTimeout(() => {...}, 250)
ChangePage(newPage) ==
    /\ isAnimating' = TRUE
    /\ pageTimers' = Append(pageTimers, newPage)

\* variant: disabled={currentPage > totalSpreads}
NextButtonIgnoresAnimation == currentPage > totalSpreads
\* Next button: disabled={currentPage > totalSpreads || isAnimating}
NextButtonDisabled == currentPage > totalSpreads \/ isAnimating
\* Previous button: disabled={currentPage === 0 || isAnimating}
PrevButtonDisabled == currentPage = 0 \/ isAnimating

\* handleNextPage: if (currentPage <= totalSpreads)
NextEnabled == currentPage <= totalSpreads
\* handlePrevPage: if (currentPage > 0)
PrevEnabled == currentPage > 0

\* changePage(currentPage + 1)
NextPage == currentPage + 1
\* variant: changePage(currentPage - 2)
PrevPageSkipsOne == currentPage - 2
\* changePage(currentPage - 1)
PrevPage == currentPage - 1

\* a click on the Next button
HandleNextPage ==
    /\ ~NextButtonDisabled
    /\ NextEnabled
    /\ ChangePage(NextPage)
    /\ navRequests' = Append(navRequests, [op |-> "next", from |-> currentPage])
    /\ UNCHANGED <<currentPage, totalContentPages, pageHeight, contentHeight,
                   areaHeight, measured, turns, nextRun>>
    /\ UNCHANGED <<expVars, genVars, appVars, docVars, draftVars>>

\* variant: the button is enabled at the cover and the handler has no test
HandlePrevPageUnguarded ==
    /\ ~isAnimating
    /\ ChangePage(PrevPage)
    /\ navRequests' = Append(navRequests, [op |-> "prev", from |-> currentPage])
    /\ UNCHANGED <<currentPage, totalContentPages, pageHeight, contentHeight,
                   areaHeight, measured, turns, nextRun>>
    /\ UNCHANGED <<expVars, genVars, appVars, docVars, draftVars>>
\* a click on the Previous button
HandlePrevPage ==
    /\ ~PrevButtonDisabled
    /\ PrevEnabled
    /\ ChangePage(PrevPage)
    /\ navRequests' = Append(navRequests, [op |-> "prev", from |-> currentPage])
    /\ UNCHANGED <<currentPage, totalContentPages, pageHeight, contentHeight,
                   areaHeight, measured, turns, nextRun>>
    /\ UNCHANGED <<expVars, genVars, appVars, docVars, draftVars>>

\* history: the last two of the page turns completed
LastTwo(q) == IF Len(q) <= 2 THEN q ELSE SubSeq(q, Len(q) - 1, Len(q))
\* history: the run of next() turns from Cover after a turn by op to page p
RunAfterTurn(op, p) ==
    IF p = 0 THEN <<0>>
    ELSE IF op = "next" /\ nextRun # <<>> THEN <<nextRun[1] + 1>>
    ELSE <<>>

\* the timeout of changePage fires: setCurrentPage(newPage); setIsAnimating(false)
PageTurnTimeout ==
    /\ pageTimers # <<>>
    /\ currentPage' = Head(pageTimers)
    /\ isAnimating' = FALSE
    /\ pageTimers' = Tail(pageTimers)
    /\ navRequests' = Tail(navRequests)
    /\ turns' = LastTwo(Append(turns, Head(navRequests)))
    /\ nextRun' = RunAfterTurn(Head(navRequests).op, Head(pageTimers))
    /\ UNCHANGED <<totalContentPages, pageHeight, contentHeight, areaHeight, measured>>
    /\ UNCHANGED <<expVars, genVars, appVars, docVars, draftVars>>

--------------------------------------------------------------------------
(* What a spread renders: the page numbers and the right page's presence. *)

\* const leftPageNum = (currentPage - 1) * 2 + 1
leftPageNum == (currentPage - 1) * 2 + 1
\* const rightPageNum = (currentPage - 1) * 2 + 2
rightPageNum == (currentPage - 1) * 2 + 2

\* the cover is rendered when currentPage === 0, the spread when currentPage > 0
CoverRendered == currentPage = 0
SpreadRendered == currentPage > 0

\* variant: rightPageNum < totalContentPages
RightPageRenderedStrict == SpreadRendered /\ rightPageNum < totalContentPages
\* {rightPageNum <= totalContentPages && ( ...the right page... )}
RightPageRendered == SpreadRendered /\ rightPageNum <= totalContentPages

--------------------------------------------------------------------------
\* the state object of saveStateToLocalStorage, of the fields followed here
SavedState == [title |-> title, chapters |-> chapters]

\* useEffect(() => { saveStateToLocalStorage() }, [saveStateToLocalStorage]):
\* after a render that changed the draft, its JSON is stored
SaveEffect == progress' = <<SavedState'>>

\* the App's draft after construction, stored by the save effect
DraftInit ==
    /\ title = ""
    /\ progress = <<SavedState>>

NavInit ==
    /\ currentPage = 0
    /\ totalContentPages = 1
    /\ pageHeight = 0
    /\ isAnimating = FALSE
    /\ pageTimers = <<>>
    /\ contentHeight = 0
    /\ areaHeight = 0
    /\ measured = <<>>
    /\ navRequests = <<>>
    /\ turns = <<>>
    /\ nextRun = <<0>>

ExpInit ==
    /\ exporting = "null"
    /\ exports = <<>>
    /\ docxPromise = 0
    /\ windowDocx = FALSE
    /\ scripts = {}
    /\ fetchSeq = 0
    /\ lastFailure = <<>>
    /\ justReturned = <<>>

GenInit ==
    /\ chapters = <<>>
    /\ isLoading = FALSE
    /\ error = FALSE
    /\ gens = EmptyBag
    /\ run = [active |-> FALSE, snap |-> <<>>, i |-> 0]
    /\ tocCall = "idle"

\* the App shows the viewer on the one entry of its history
OpenedInit ==
    /\ finalBookContent = 0
    /\ isViewerOpen = FALSE
    /\ bookHistory = <<1>>
    /\ viewingHistory = 1
    /\ assembling = 0
    /\ bookSeq = 1

\* nothing has been exported; the manuscript's text plays no part
NoDocs ==
    /\ bookChars = <<>>
    /\ docChildren = <<>>
    /\ mdFile = <<>>
    /\ pdfRows = <<>>
    /\ pdfDoc = <<>>
    /\ htmlContent = <<>>

\* a viewer opened on a book with a cover image
Init == NavInit /\ ExpInit /\ GenInit /\ DraftInit /\ OpenedInit /\ NoDocs /\ hasCover = TRUE

\* a viewer opened on a book with or without a cover image
InitExport == NavInit /\ ExpInit /\ GenInit /\ DraftInit /\ OpenedInit /\ NoDocs /\ hasCover \in BOOLEAN

Next ==
    \/ \E h \in 0..MaxExtent : Layout(h)
    \/ SettleTick
    \/ \E h \in 0..MaxExtent, v \in 0..MaxViewport : HandleResize(h, v)
    \/ HandleNextPage
    \/ HandlePrevPage
    \/ PageTurnTimeout

\* the viewer's navigation and pagination
Spec == Init /\ [][Next]_vars

--------------------------------------------------------------------------
(* The export pipeline: handleExport, exportTo*, loadDocxScript.           *)
(*                                                                         *)
(* An entry of exports is one handleExport call that has not returned:     *)
(* fmt its format, pc where it is suspended, p the loader promise it       *)
(* awaits (0: none).                                                       *)
(*   "micro"      the export ran synchronously; handleExport's own await   *)
(*                resumes in a microtask of the same task (md, html, pdf   *)
(*                without a cover image)                                   *)
(*   "imgLoad"    exportToPDF awaits the cover image's load or error       *)
(*   "scriptLoad" exportToDOCX awaits loadDocxScript()'s pending promise   *)
(*   "packing"    exportToDOCX awaits Packer.toBlob(doc)                   *)
(* The export buttons carry no disabled attribute and handleExport has no  *)
(* guard; the overlay shown while exporting covers them for the pointer    *)
(* only, the clicked button keeps the keyboard focus.                      *)

Formats == {"pdf", "docx", "html", "md"}

\* `Exporting to ${format.toUpperCase()}...`
ExportingMessage(f) ==
    CASE f = "pdf"  -> "Exporting to PDF..."
      [] f = "docx" -> "Exporting to DOCX..."
      [] f = "html" -> "Exporting to HTML..."
      [] f = "md"   -> "Exporting to MD..."

\* no microtask is pending: the event loop may start another task
TaskBoundary == \A i \in DOMAIN exports : exports[i].pc # "micro"

\* variant: the pending promise is not looked at
LoaderNeverReuses == FALSE
\* loadDocxScript: if (docxPromise) return docxPromise
LoaderReuses == docxPromise # 0

\* where a fresh call of handleExport(f) first suspends
FirstSuspension(f) ==
    CASE f = "pdf"  -> IF hasCover THEN "imgLoad" ELSE "micro"
      [] f = "docx" -> IF windowDocx THEN "packing" ELSE "scriptLoad"
      [] f = "html" -> "micro"
      [] f = "md"   -> "micro"

\* handleExport(format) up to its first suspension; for docx this runs
\* loadDocxScript, which resolves at once, joins the pending promise or
\* inserts a script element.
HandleExport(f) ==
    /\ TaskBoundary
    /\ Len(exports) < MaxInFlight
    /\ exporting' = ExportingMessage(f)
    /\ IF f = "docx" /\ ~windowDocx
       THEN IF LoaderReuses
            THEN /\ exports' = Append(exports, [fmt |-> f, pc |-> "scriptLoad", p |-> docxPromise])
                 /\ UNCHANGED <<docxPromise, scripts, fetchSeq>>
            ELSE /\ fetchSeq < MaxFetches
                 /\ fetchSeq' = fetchSeq + 1
                 /\ docxPromise' = fetchSeq + 1
                 /\ scripts' = scripts \cup {fetchSeq + 1}
                 /\ exports' = Append(exports, [fmt |-> f, pc |-> "scriptLoad", p |-> fetchSeq + 1])
       ELSE /\ exports' = Append(exports, [fmt |-> f, pc |-> FirstSuspension(f), p |-> 0])
            /\ UNCHANGED <<docxPromise, scripts, fetchSeq>>
    /\ justReturned' = <<>>
    /\ UNCHANGED <<windowDocx, hasCover, lastFailure>>
    /\ UNCHANGED <<navVars, genVars, appVars, docVars, draftVars>>

\* exports without its i-th entry
Without(i) == [j \in 1..(Len(exports) - 1) |-> IF j < i THEN exports[j] ELSE exports[j + 1]]

\* variant: setExporting(null) at the end of the try block only
FinallyClearOnSuccessOnly(ok) == IF ok THEN "null" ELSE exporting
\* finally { setExporting(null) }: the indicator after a call returns
FinallyClear(ok) == "null"

\* variant: the catch block raises no alert
FailureOfSilent(f, ok, alerts) == lastFailure
\* handleExport's catch: alert(`Failed to export to ${format}. ...`), after
\* the alerts the export raised itself
FailureOf(f, ok, alerts) == IF ok THEN lastFailure ELSE <<f, alerts>>

\* the call exports[i] returns: the export resolved (ok) or threw
ReturnFromExport(i, ok) ==
    /\ exports' = Without(i)
    /\ exporting' = FinallyClear(ok)
    /\ lastFailure' = FailureOf(exports[i].fmt, ok, 1)
    /\ justReturned' = [fmt |-> exports[i].fmt, ok |-> ok]
    /\ UNCHANGED <<docxPromise, windowDocx, scripts, fetchSeq, hasCover>>
    /\ UNCHANGED <<navVars, genVars, appVars, docVars, draftVars>>

\* the microtask after a synchronous export
Microtask(i, ok) ==
    /\ i \in DOMAIN exports
    /\ exports[i].pc = "micro"
    /\ ReturnFromExport(i, ok)

\* img.onload or img.onerror; the rest of exportToPDF is synchronous
ImgSettle(i, ok) ==
    /\ TaskBoundary
    /\ i \in DOMAIN exports
    /\ exports[i].pc = "imgLoad"
    /\ ReturnFromExport(i, ok)

\* Packer.toBlob(doc) settles (a throw while building the document included)
PackSettle(i, ok) ==
    /\ TaskBoundary
    /\ i \in DOMAIN exports
    /\ exports[i].pc = "packing"
    /\ ReturnFromExport(i, ok)

AwaitsFetch(e, s) == e.pc = "scriptLoad" /\ e.p = s
HasWaiter(s) == \E i \in DOMAIN exports : AwaitsFetch(exports[i], s)

\* the promise of fetch s resolves: every caller awaiting it goes on to build
\* the document and suspends at Packer.toBlob
ResolveFetch(s) ==
    /\ exports' = [i \in DOMAIN exports |->
                     IF AwaitsFetch(exports[i], s)
                     THEN [exports[i] EXCEPT !.pc = "packing", !.p = 0]
                     ELSE exports[i]]
    /\ justReturned' = <<>>
    /\ UNCHANGED <<exporting, lastFailure>>

\* the promise of fetch s rejects: in every caller awaiting it exportToDOCX
\* alerts and rethrows, handleExport alerts again and clears the indicator
RejectFetch(s) ==
    /\ exports' = SelectSeq(exports, LAMBDA e : ~AwaitsFetch(e, s))
    /\ exporting' = IF HasWaiter(s) THEN FinallyClear(FALSE) ELSE exporting
    /\ lastFailure' = IF HasWaiter(s) THEN FailureOf("docx", FALSE, 2) ELSE lastFailure
    /\ justReturned' = IF HasWaiter(s) THEN [fmt |-> "docx", ok |-> FALSE] ELSE <<>>

\* script.onload; lib: the script defined window.docx
ScriptOnload(s, lib) ==
    /\ TaskBoundary
    /\ s \in scripts
    /\ scripts' = scripts \ {s}
    /\ windowDocx' = (windowDocx \/ lib)
    /\ IF windowDocx'
       THEN ResolveFetch(s) /\ UNCHANGED docxPromise
       ELSE docxPromise' = 0 /\ RejectFetch(s)
    /\ UNCHANGED <<fetchSeq, hasCover>>
    /\ UNCHANGED <<navVars, genVars, appVars, docVars, draftVars>>

\* variant: script.onerror without docxPromise = null
ScriptOnerrorKeepsSlot(s) ==
    /\ TaskBoundary
    /\ s \in scripts
    /\ scripts' = scripts \ {s}
    /\ RejectFetch(s)
    /\ UNCHANGED <<docxPromise, windowDocx, fetchSeq, hasCover>>
    /\ UNCHANGED <<navVars, genVars, appVars, docVars, draftVars>>
\* script.onerror
ScriptOnerror(s) ==
    /\ TaskBoundary
    /\ s \in scripts
    /\ docxPromise' = 0
    /\ scripts' = scripts \ {s}
    /\ RejectFetch(s)
    /\ UNCHANGED <<windowDocx, fetchSeq, hasCover>>
    /\ UNCHANGED <<navVars, genVars, appVars, docVars, draftVars>>

Slots == 1..MaxInFlight
FetchIds == 1..MaxFetches

NextExport ==
    \/ \E f \in Formats : HandleExport(f)
    \/ \E i \in Slots, ok \in BOOLEAN : Microtask(i, ok)
    \/ \E i \in Slots, ok \in BOOLEAN : ImgSettle(i, ok)
    \/ \E i \in Slots, ok \in BOOLEAN : PackSettle(i, ok)
    \/ \E s \in FetchIds, lib \in BOOLEAN : ScriptOnload(s, lib)
    \/ \E s \in FetchIds : ScriptOnerror(s)

\* the viewer's exports and the docx loader
SpecExport == InitExport /\ [][NextExport]_vars

\* every promise an export awaits settles, and microtasks run
ExportFairness ==
    /\ WF_vars(\E i \in Slots, ok \in BOOLEAN : Microtask(i, ok))
    /\ WF_vars(\E i \in Slots, ok \in BOOLEAN : ImgSettle(i, ok))
    /\ WF_vars(\E i \in Slots, ok \in BOOLEAN : PackSettle(i, ok))
    /\ WF_vars(\E s \in FetchIds, lib \in BOOLEAN : ScriptOnload(s, lib))
    /\ WF_vars(\E s \in FetchIds : ScriptOnerror(s))
SpecExportFair == SpecExport /\ ExportFairness

\* the viewer's exports together with its page turns
NextViewer ==
    \/ NextExport
    \/ HandleNextPage
    \/ HandlePrevPage
    \/ PageTurnTimeout

SpecViewer == InitExport /\ [][NextViewer]_vars

--------------------------------------------------------------------------
(* Chapter generation in App: handleGenerateTOC, handleGenerateChapter,    *)
(* handleGenerateAllChapters.                                              *)
(*                                                                         *)
(* Chapters are numbered from 1 here (index + 1 of the source).  A handler *)
(* reads the chapters array of the render it was created in: a click reads *)
(* the current state, a handleGenerateAllChapters call keeps reading the   *)
(* array of the render in which it was clicked (snap) for its whole loop,  *)
(* and so do the handleGenerateChapter calls it makes.  setChapters with   *)
(* an updater function applies to the current state.                       *)
(*                                                                         *)
(* One "generate all" run is followed at a time (run); the chapters' own   *)
(* buttons stay usable while it is in flight.                              *)

\* chapter texts: empty or written
Texts == {"", "a"}
\* what generateChapterContent resolves to
ServiceTexts == {"a"}
\* previousChapterContent === undefined
NoContext == "<undefined>"

NoRun == [active |-> FALSE, snap |-> <<>>, i |-> 0]

\* the table of contents is requested (Config screen) while no chapter work
\* is in flight
HandleGenerateTOC ==
    /\ tocCall = "idle"
    /\ gens = EmptyBag
    /\ ~run.active
    /\ tocCall' = "toc"
    /\ isLoading' = TRUE
    /\ error' = FALSE
    /\ UNCHANGED <<chapters, gens, run>>
    /\ UNCHANGED title
    /\ SaveEffect
    /\ UNCHANGED <<navVars, expVars, appVars, docVars>>

\* generateTableOfContents settles: n titles, or a rejection
TocSettle(ok, n) ==
    /\ tocCall = "toc"
    /\ IF ok
       THEN /\ chapters' = [k \in 1..n |-> [content |-> "", status |-> "pending"]]
            /\ tocCall' = "prompts"
            /\ UNCHANGED <<isLoading, error>>
       ELSE /\ error' = TRUE
            /\ isLoading' = FALSE
            /\ tocCall' = "idle"
            /\ UNCHANGED chapters
    /\ UNCHANGED <<gens, run>>
    /\ UNCHANGED title
    /\ SaveEffect
    /\ UNCHANGED <<navVars, expVars, appVars, docVars>>

\* the two generateBookCoverPrompt calls settle
PromptsSettle(ok) ==
    /\ tocCall = "prompts"
    /\ error' = ~ok
    /\ isLoading' = FALSE
    /\ tocCall' = "idle"
    /\ UNCHANGED <<chapters, gens, run>>
    /\ UNCHANGED title
    /\ SaveEffect
    /\ UNCHANGED <<navVars, expVars, appVars, docVars>>

\* useContinuity && index > 0 ? chapters[index-1].content : undefined, read
\* from the closure's array
PreviousChapterContent(closure, index, useContinuity) ==
    IF useContinuity /\ index > 1 THEN closure[index - 1].content ELSE NoContext

\* the request made by handleGenerateChapter(index, useContinuity) created in
\* a render with chapters = closure; byRun: called from the run's loop; now is
\* the state the request starts in.  prev records the text chapter index - 1
\* holds at that moment.
Request(closure, now, index, useContinuity, byRun) ==
    [index |-> index,
     ctx   |-> PreviousChapterContent(closure, index, useContinuity),
     prev  |-> IF index > 1 THEN now[index - 1].content ELSE NoContext,
     byRun |-> byRun]

\* setChapters(prev => prev.map(... status: 'generating' ...)) for a set of
\* chapters
MarkGenerating(cs, S) ==
    [k \in DOMAIN cs |-> IF k \in S THEN [cs[k] EXCEPT !.status = "generating"] ELSE cs[k]]

\* a chapter's own button: handleGenerateChapter(index, useContinuity)
HandleGenerateChapter(index, useContinuity) ==
    /\ tocCall = "idle"
    /\ BagCardinality(gens) < MaxGens
    /\ index \in DOMAIN chapters
    /\ chapters[index].status # "generating"
    /\ chapters' = MarkGenerating(chapters, {index})
    /\ isLoading' = TRUE
    /\ error' = FALSE
    /\ gens' = gens (+) SetToBag({Request(chapters, chapters, index, useContinuity, FALSE)})
    /\ UNCHANGED <<run, tocCall>>
    /\ UNCHANGED title
    /\ SaveEffect
    /\ UNCHANGED <<navVars, expVars, appVars, docVars>>

\* the textarea's onChange
EditChapter(index, text) ==
    /\ index \in DOMAIN chapters
    /\ chapters[index].content # text
    /\ chapters' = [chapters EXCEPT ![index].content = text]
    /\ UNCHANGED <<isLoading, error, gens, run, tocCall>>
    /\ UNCHANGED title
    /\ SaveEffect
    /\ UNCHANGED <<navVars, expVars, appVars, docVars>>

\* The loop of handleGenerateAllChapters, resumed after chapter i: it passes
\* over the chapters its array shows as 'done', and handleGenerateChapter
\* returns at once for those it shows as 'generating'; the first other
\* chapter is requested and awaited.
Remaining(snap, i) ==
    {j \in DOMAIN snap : j > i /\ snap[j].status \notin {"done", "generating"}}
\* variant: the loop does not await its calls
LoopBatchNoAwait(snap, i) == Remaining(snap, i)
LoopBatch(snap, i) ==
    IF Remaining(snap, i) = {} THEN {}
    ELSE {CHOOSE j \in Remaining(snap, i) : \A k \in Remaining(snap, i) : j <= k}

MaxIn(S) == CHOOSE j \in S : \A k \in S : k <= j

\* the run's loop goes on from chapter i, with cs the current chapters and gs
\* the requests in flight: it starts its next request, or returns
RunLoop(snap, i, cs, gs, err) ==
    LET batch == LoopBatch(snap, i)
    IN  IF batch = {}
        THEN /\ run' = NoRun
             /\ chapters' = cs
             /\ gens' = gs
             /\ error' = err
             /\ isLoading' = (IF i = 0 THEN isLoading ELSE FALSE)
        ELSE /\ run' = [active |-> TRUE, snap |-> snap, i |-> MaxIn(batch)]
             /\ chapters' = MarkGenerating(cs, batch)
             /\ gens' = gs (+) SetToBag({Request(snap, cs, j, TRUE, TRUE) : j \in batch})
             /\ error' = FALSE
             /\ isLoading' = TRUE

\* the Generate All Chapters button
HandleGenerateAllChapters ==
    /\ tocCall = "idle"
    /\ ~run.active
    /\ chapters # <<>>
    /\ BagCardinality(gens) < MaxGens
    /\ RunLoop(chapters, 0, chapters, gens, FALSE)
    /\ UNCHANGED tocCall
    /\ UNCHANGED title
    /\ SaveEffect
    /\ UNCHANGED <<navVars, expVars, appVars, docVars>>

\* variant: the catch block sets the error and leaves the chapter as it is
SettledErrorKeepsStatus(cs, index, ok, text) ==
    [cs EXCEPT ![index] = IF ok THEN [content |-> text, status |-> "done"] ELSE @]
\* setChapters after the await of generateChapterContent: try and catch
Settled(cs, index, ok, text) ==
    [cs EXCEPT ![index] = IF ok THEN [content |-> text, status |-> "done"]
                                ELSE [@ EXCEPT !.status = "error"]]

\* generateChapterContent settles for the request req: handleGenerateChapter
\* stores the outcome and returns; the run that awaited it goes on
GenSettle(req, ok, text) ==
    /\ BagIn(req, gens)
    /\ LET cs  == Settled(chapters, req.index, ok, text)
           gs  == gens (-) SetToBag({req})
       IN  IF req.byRun /\ run.active
           THEN RunLoop(run.snap, run.i, cs, gs, ~ok)
           ELSE /\ chapters' = cs
                /\ gens' = gs
                /\ error' = ~ok
                /\ isLoading' = FALSE
                /\ UNCHANGED run
    /\ UNCHANGED tocCall
    /\ UNCHANGED title
    /\ SaveEffect
    /\ UNCHANGED <<navVars, expVars, appVars, docVars>>

NextGen ==
    \/ HandleGenerateTOC
    \/ \E ok \in BOOLEAN, n \in 1..NumChapters : TocSettle(ok, n)
    \/ \E ok \in BOOLEAN : PromptsSettle(ok)
    \/ \E index \in 1..NumChapters, useContinuity \in BOOLEAN :
          HandleGenerateChapter(index, useContinuity)
    \/ \E index \in 1..NumChapters, text \in Texts : EditChapter(index, text)
    \/ HandleGenerateAllChapters
    \/ \E req \in BagToSet(gens), ok \in BOOLEAN, text \in ServiceTexts :
          GenSettle(req, ok, text)

\* the App's chapter generation
SpecGen == Init /\ [][NextGen]_vars

\* every generateChapterContent promise settles: as long as requests for a
\* chapter are in flight, one of them is answered
GenFairness ==
    \A index \in 1..NumChapters :
        WF_vars(\E req \in BagToSet(gens), ok \in BOOLEAN, text \in ServiceTexts :
                    req.index = index /\ GenSettle(req, ok, text))

\* the table of contents and the chapters are requested and the requests
\* settle; no text is edited by hand
NextRequests ==
    \/ HandleGenerateTOC
    \/ \E ok \in BOOLEAN, n \in 1..NumChapters : TocSettle(ok, n)
    \/ \E ok \in BOOLEAN : PromptsSettle(ok)
    \/ \E index \in 1..NumChapters, useContinuity \in BOOLEAN :
          HandleGenerateChapter(index, useContinuity)
    \/ HandleGenerateAllChapters
    \/ \E req \in BagToSet(gens), ok \in BOOLEAN, text \in ServiceTexts :
          GenSettle(req, ok, text)

\* chapter generation in which every request made is answered
SpecGenFair == Init /\ [][NextRequests]_vars /\ GenFairness

--------------------------------------------------------------------------
(* App: assembling the book, the history panel, mounting the viewer. *)

\* {(isViewerOpen || viewingHistory) && <StorybookViewer ... />}
ViewerMounted == isViewerOpen \/ viewingHistory # 0

\* the manuscript a viewer is given
BookContentOf(history, final) == IF history # 0 THEN history ELSE final
\* bookContent={viewingHistory ? viewingHistory.content : finalBookContent},
\* 0 when no viewer is mounted
bookContent ==
    IF ViewerMounted THEN BookContentOf(viewingHistory, finalBookContent) ELSE 0

\* variant: chapters.some(c => c.status === 'done')
isAssemblyReadySome == \E i \in DOMAIN chapters : chapters[i].status = "done"
\* chapters.length > 0 && chapters.every(c => c.status === 'done')
isAssemblyReady ==
    /\ Len(chapters) > 0
    /\ \A i \in DOMAIN chapters : chapters[i].status = "done"

\* A StorybookViewer is mounted: every useState starts from its initial value,
\* nothing is laid out yet, and the timers of an earlier instance are gone.
MountViewer ==
    /\ currentPage' = 0
    /\ totalContentPages' = 1
    /\ pageHeight' = 0
    /\ isAnimating' = FALSE
    /\ pageTimers' = <<>>
    /\ contentHeight' = 0
    /\ areaHeight' = 0
    /\ measured' = <<>>
    /\ navRequests' = <<>>
    /\ turns' = <<>>
    /\ nextRun' = <<0>>

\* The App renders with the viewer's condition true: a viewer already mounted
\* stays the same instance and keeps its state, whatever its props become.
RenderViewer == IF ViewerMounted THEN UNCHANGED navVars ELSE MountViewer

\* a click on "Assemble": setIsLoading(true); setError(null); await generatePreface
HandleAssembleBook ==
    /\ isAssemblyReady
    /\ assembling < 1
    /\ bookSeq < MaxBooks
    /\ assembling' = assembling + 1
    /\ isLoading' = TRUE
    /\ error' = FALSE
    /\ UNCHANGED <<finalBookContent, isViewerOpen, bookHistory, viewingHistory, bookSeq>>
    /\ UNCHANGED <<chapters, gens, run, tocCall>>
    /\ UNCHANGED <<navVars, expVars, docVars, draftVars>>

\* generatePreface settles: the manuscript is set, its entry is put in front of
\* the history and the viewer is opened; a failure sets the error.
AssembleSettle(ok) ==
    /\ assembling > 0
    /\ assembling' = assembling - 1
    /\ isLoading' = FALSE
    /\ IF ok
       THEN /\ bookSeq' = bookSeq + 1
            /\ finalBookContent' = bookSeq'
            /\ bookHistory' = <<bookSeq'>> \o bookHistory
            /\ isViewerOpen' = TRUE
            /\ RenderViewer
            /\ UNCHANGED error
       ELSE /\ error' = TRUE
            /\ UNCHANGED <<bookSeq, finalBookContent, bookHistory, isViewerOpen, navVars>>
    /\ UNCHANGED viewingHistory
    /\ UNCHANGED <<chapters, gens, run, tocCall>>
    /\ UNCHANGED <<expVars, docVars, draftVars>>

\* the history panel's open button: setViewingHistory(book)
OpenHistory(book) ==
    /\ \E i \in DOMAIN bookHistory : bookHistory[i] = book
    /\ book # viewingHistory
    /\ viewingHistory' = book
    /\ RenderViewer
    /\ UNCHANGED <<finalBookContent, isViewerOpen, bookHistory, assembling, bookSeq>>
    /\ UNCHANGED <<expVars, genVars, docVars, draftVars>>

\* the history panel's delete button, confirmed
DeleteHistory(book) ==
    /\ \E i \in DOMAIN bookHistory : bookHistory[i] = book
    /\ bookHistory' = SelectSeq(bookHistory, LAMBDA b : b # book)
    /\ UNCHANGED <<finalBookContent, isViewerOpen, viewingHistory, assembling, bookSeq>>
    /\ UNCHANGED <<navVars, expVars, genVars, docVars, draftVars>>

\* onClose: setIsViewerOpen(false); setViewingHistory(null).  The instance is
\* unmounted; what it held is no longer rendered.
CloseViewer ==
    /\ ViewerMounted
    /\ isViewerOpen' = FALSE
    /\ viewingHistory' = 0
    /\ UNCHANGED <<finalBookContent, bookHistory, assembling, bookSeq>>
    /\ UNCHANGED <<navVars, expVars, genVars, docVars, draftVars>>

\* the App after construction, its chapters written, no book assembled yet
InitSession ==
    /\ NavInit /\ ExpInit /\ NoDocs /\ hasCover = TRUE
    /\ chapters = <<[content |-> "a", status |-> "done"]>>
    /\ isLoading = FALSE
    /\ error = FALSE
    /\ gens = EmptyBag
    /\ run = [active |-> FALSE, snap |-> <<>>, i |-> 0]
    /\ tocCall = "idle"
    /\ finalBookContent = 0
    /\ isViewerOpen = FALSE
    /\ bookHistory = <<>>
    /\ viewingHistory = 0
    /\ assembling = 0
    /\ bookSeq = 0
    /\ title = ""
    /\ progress = <<SavedState>>

NextSession ==
    \/ HandleAssembleBook
    \/ \E ok \in BOOLEAN : AssembleSettle(ok)
    \/ \E book \in 1..MaxBooks : OpenHistory(book)
    \/ \E book \in 1..MaxBooks : DeleteHistory(book)
    \/ CloseViewer
    \/ ViewerMounted /\ HandleNextPage
    \/ ViewerMounted /\ HandlePrevPage
    \/ ViewerMounted /\ PageTurnTimeout

\* the App opening and closing the viewer, and the page turns of the viewer it
\* shows (books of one page, as long as nothing has been measured)
SpecSession == InitSession /\ [][NextSession]_vars

--------------------------------------------------------------------------
(* The draft in local storage: the save effect and the load effect.        *)
(*                                                                         *)
(* Of the fields of the stored state, title and chapters are followed;     *)
(* the other fields are stored and restored as title is (value || default).*)
(* A reload discards the page: every request in flight is gone, the App is *)
(* constructed and mounted again, and only local storage is carried over.  *)

Titles == {"", "t"}

\* useState's initial values: the state of the first render
InitialState == [title |-> "", chapters |-> <<>>]

\* state.title || ''
OrString(x, d) == IF x = "" THEN d ELSE x
\* state.chapters || []: an array is never falsy
OrArray(x, d) == x

\* the setters of the load effect, applied to the parsed state
Restore(state) ==
    [title    |-> OrString(state.title, ""),
     chapters |-> OrArray(state.chapters, <<>>)]

\* The save effect is declared before the load effect, and the effects of a
\* commit run in the order of their declaration: on mount the state of the
\* first render is stored first.
SaveOnMount(stored) == <<InitialState>>

\* const savedState = localStorage.getItem(...); if (savedState) {...}
LoadEffect(stored, state) == IF stored # <<>> THEN Restore(stored[1]) ELSE state

\* the draft after the effects of the mount have run
MountedState(stored) == LoadEffect(SaveOnMount(stored), InitialState)

\* the title field's onChange
SetTitle(t) ==
    /\ t # title
    /\ title' = t
    /\ UNCHANGED genVars
    /\ SaveEffect
    /\ UNCHANGED <<navVars, expVars, appVars, docVars>>

\* The page is reloaded while no viewer is shown: the App is constructed,
\* rendered with its initial state, and its effects run; the render that
\* follows the load effect's setters stores the state again.
Reload ==
    /\ ~ViewerMounted
    /\ LET state == MountedState(progress)
       IN  /\ title' = state.title
           /\ chapters' = state.chapters
    /\ isLoading' = FALSE
    /\ error' = FALSE
    /\ gens' = EmptyBag
    /\ run' = NoRun
    /\ tocCall' = "idle"
    /\ finalBookContent' = 0
    /\ assembling' = 0
    /\ UNCHANGED <<isViewerOpen, viewingHistory, bookHistory, bookSeq>>
    /\ SaveEffect
    /\ UNCHANGED <<navVars, expVars, docVars>>

\* the App after construction, nothing in its history
InitDraft ==
    /\ NavInit /\ ExpInit /\ GenInit /\ DraftInit /\ NoDocs /\ hasCover = TRUE
    /\ finalBookContent = 0
    /\ isViewerOpen = FALSE
    /\ bookHistory = <<>>
    /\ viewingHistory = 0
    /\ assembling = 0
    /\ bookSeq = 0

NextDraft ==
    \/ NextGen
    \/ \E t \in Titles : SetTitle(t)
    \/ Reload

\* the App's draft, its copy in local storage and reloads of the page
SpecDraft == InitDraft /\ [][NextDraft]_vars

--------------------------------------------------------------------------
(* What the exports write: exportToDOCX's paragraphs, exportToMD's blob.   *)
(*                                                                         *)
(* A string is the sequence of its characters, a character outside ASCII   *)
(* written as "U+" and its code point.  A paragraph of the docx            *)
(* document is [heading, text, runs]: heading "none" and text <<>> where   *)
(* Paragraph's options have none, runs the texts of its TextRun children.  *)

\* the characters String.prototype.trim removes, as far as manuscripts here
\* hold them
WhiteSpace == {" ", "\t", "\r", "\n"}

\* s.substring(n)
Substring(s, n) == SubSeq(s, n + 1, Len(s))

\* s.startsWith(prefix)
StartsWith(s, prefix) ==
    /\ Len(s) >= Len(prefix)
    /\ SubSeq(s, 1, Len(prefix)) = prefix

RECURSIVE TrimStart(_)
TrimStart(s) ==
    IF s # <<>> /\ Head(s) \in WhiteSpace THEN TrimStart(Tail(s)) ELSE s

RECURSIVE TrimEnd(_)
TrimEnd(s) ==
    IF s # <<>> /\ s[Len(s)] \in WhiteSpace THEN TrimEnd(SubSeq(s, 1, Len(s) - 1)) ELSE s

\* s.trim()
Trim(s) == TrimEnd(TrimStart(s))

\* s.split('\n'): the pieces between line feeds, at least one piece
RECURSIVE Split(_)
Split(s) ==
    IF \E i \in DOMAIN s : s[i] = "\n"
    THEN LET i == CHOOSE j \in DOMAIN s :
                      s[j] = "\n" /\ \A k \in 1..(j - 1) : s[k] # "\n"
         IN  <<SubSeq(s, 1, i - 1)>> \o Split(Substring(s, i))
    ELSE <<s>>

\* lines.join('\n')
RECURSIVE Join(_)
Join(lines) ==
    IF lines = <<>> THEN <<>>
    ELSE IF Len(lines) = 1 THEN lines[1]
    ELSE lines[1] \o <<"\n">> \o Join(Tail(lines))

\* the props of the viewer besides bookContent
bookTitle == <<"T">>
author == <<"A">>

\* '![Front Cover]'
CoverPrefix == <<"!", "[", "F", "r", "o", "n", "t", " ", "C", "o", "v", "e", "r", "]">>

\* bookContent.split('\n').filter(line => !line.startsWith('![Front Cover]'))
contentLines == SelectSeq(Split(bookChars), LAMBDA line : ~StartsWith(line, CoverPrefix))

\* '# ', '## ', '### '
Marker(rank) == [i \in 1..(rank + 1) |-> IF i <= rank THEN "#" ELSE " "]

\* variant: trimmedLine.startsWith('#'), ('##'), ('###')
StartsWithHashes(trimmedLine, rank) ==
    StartsWith(trimmedLine, SubSeq(Marker(rank), 1, rank))
\* trimmedLine.startsWith('# '), ('## '), ('### ')
StartsWithMarker(trimmedLine, rank) == StartsWith(trimmedLine, Marker(rank))

\* new Paragraph({ text, heading })
HeadingParagraph(text, heading) == [heading |-> heading, text |-> text, runs |-> <<>>]
\* new Paragraph({ children: [new TextRun(text)] })
BodyParagraph(text) == [heading |-> "none", text |-> <<>>, runs |-> <<text>>]
\* new Paragraph({})
SpacerParagraph == [heading |-> "none", text |-> <<>>, runs |-> <<>>]

\* the body of contentLines.forEach
ParagraphOf(line) ==
    LET trimmedLine == Trim(line)
    IN  IF StartsWithMarker(trimmedLine, 1)
        THEN HeadingParagraph(Trim(Substring(trimmedLine, 2)), "HEADING_1")
        ELSE IF StartsWithMarker(trimmedLine, 2)
        THEN HeadingParagraph(Trim(Substring(trimmedLine, 3)), "HEADING_2")
        ELSE IF StartsWithMarker(trimmedLine, 3)
        THEN HeadingParagraph(Trim(Substring(trimmedLine, 4)), "HEADING_3")
        ELSE IF trimmedLine # <<>>
        THEN BodyParagraph(trimmedLine)
        ELSE SpacerParagraph

\* the three paragraphs docChildren starts with
DocHeader ==
    << HeadingParagraph(bookTitle, "TITLE"),
       HeadingParagraph(<<"b", "y", " ">> \o author, "HEADING_2"),
       SpacerParagraph >>

\* exportToDOCX with the library loaded: the children of the document's section
ExportToDOCX ==
    /\ docChildren' = DocHeader \o [i \in DOMAIN contentLines |-> ParagraphOf(contentLines[i])]
    /\ UNCHANGED <<bookChars, mdFile, pdfRows, pdfDoc, htmlContent>>
    /\ UNCHANGED <<navVars, expVars, genVars, appVars, draftVars>>

\* the code point of a character
CodePoint(c) ==
    CASE c = "\t" -> 9   [] c = "\n" -> 10  [] c = "\r" -> 13  [] c = " " -> 32
      [] c = "!" -> 33   [] c = "#" -> 35   [] c = "(" -> 40   [] c = ")" -> 41
      [] c = "A" -> 65   [] c = "C" -> 67   [] c = "F" -> 70   [] c = "T" -> 84
      [] c = "[" -> 91   [] c = "]" -> 93   [] c = "e" -> 101  [] c = "n" -> 110
      [] c = "o" -> 111  [] c = "r" -> 114  [] c = "t" -> 116  [] c = "v" -> 118
      [] c = "x" -> 120  [] c = "U+00E9" -> 233  [] c = "U+2014" -> 8212

\* the UTF-8 bytes of a code point of the basic plane
Utf8(cp) ==
    IF cp < 128 THEN <<cp>>
    ELSE IF cp < 2048 THEN <<192 + (cp \div 64), 128 + (cp % 64)>>
    ELSE <<224 + (cp \div 4096), 128 + ((cp \div 64) % 64), 128 + (cp % 64)>>

\* the bytes of a string in UTF-8
RECURSIVE Utf8Bytes(_)
Utf8Bytes(s) == IF s = <<>> THEN <<>> ELSE Utf8(CodePoint(Head(s))) \o Utf8Bytes(Tail(s))

\* new Blob(parts): the parts' UTF-8 bytes one after the other, nothing between
RECURSIVE Blob(_)
Blob(parts) == IF parts = <<>> THEN <<>> ELSE Utf8Bytes(Head(parts)) \o Blob(Tail(parts))

\* variant: the blob is made of the lines exportToDOCX keeps
MdBlobPartsFiltered == <<Join(contentLines)>>
\* new Blob([bookContent], { type: 'text/markdown' })
MdBlobParts == <<bookChars>>

\* exportToMD: the blob behind the download link
ExportToMD ==
    /\ mdFile' = <<Blob(MdBlobParts)>>
    /\ UNCHANGED <<bookChars, docChildren, pdfRows, pdfDoc, htmlContent>>
    /\ UNCHANGED <<navVars, expVars, genVars, appVars, draftVars>>

\* lines a manuscript is made of: headings of the three ranks, deeper and
\* unspaced hash prefixes, blank lines, padded lines, text, the cover image
\* alone on its line, the cover image followed by text
SampleLines ==
    { <<>>,
      <<" ">>,
      <<"x">>,
      <<"U+00E9", "U+2014">>,
      <<"#", " ", "x">>,
      <<"#", "#", " ", "x">>,
      <<"#", "#", "#", " ", "x">>,
      <<"#", "#", "#", "#", " ", "x">>,
      <<"#", "#", "#", "#">>,
      <<"#", "x">>,
      <<"#", " ">>,
      <<" ", "#", " ", " ", "x", " ">>,
      CoverPrefix \o <<"(", "x", ")">>,
      CoverPrefix \o <<"(", "x", ")", " ", "x">>,
      <<" ">> \o CoverPrefix }

\* the manuscripts of up to MaxLines lines
Manuscripts ==
    { Join(ls) : ls \in UNION { [1..n -> SampleLines] : n \in 0..MaxLines } }

\* a viewer given one of the manuscripts, nothing exported yet
InitDoc ==
    /\ NavInit /\ ExpInit /\ GenInit /\ DraftInit /\ OpenedInit /\ hasCover = TRUE
    /\ bookChars \in Manuscripts
    /\ docChildren = <<>>
    /\ mdFile = <<>>
    /\ pdfRows = <<>>
    /\ pdfDoc = <<>>
    /\ htmlContent = <<>>

NextDoc ==
    \/ ExportToDOCX
    \/ ExportToMD

\* the documents the exports write for a manuscript
SpecDoc == InitDoc /\ [][NextDoc]_vars

--------------------------------------------------------------------------
(* What exportToPDF draws: the flow of the body's lines over the pages.    *)
(*                                                                         *)
(* Lengths are in hundredths of a point, so that fontSize * 1.15 and the   *)
(* a4 page height of jsPDF (841.89 pt) are integers.  splitTextToSize      *)
(* belongs to jsPDF: the number of rows it wraps a line into is an input,  *)
(* at least 1 (the empty string gives one empty row).                      *)

\* const margin = 40
margin == 40
\* pdf.internal.pageSize.getHeight() of format 'a4', in hundredths of a point
a4Height == 84189
\* hundredths of a point in n points
Pt(n) == n * 100

\* the rank of the header a trimmed line is: isHeader1, isHeader2, isHeader3
HeaderRank(text) ==
    IF StartsWithMarker(text, 1) THEN 1
    ELSE IF StartsWithMarker(text, 2) THEN 2
    ELSE IF StartsWithMarker(text, 3) THEN 3
    ELSE 0

\* pdf.setFontSize(isHeader1 ? 18 : isHeader2 ? 14 : isHeader3 ? 12 : 12)
FontSize(rank) == IF rank = 1 THEN 18 ELSE IF rank = 2 THEN 14 ELSE 12

\* if (isHeader1 && cursorY > margin) cursorY += 20;
\* else if (isHeader2 && cursorY > margin) cursorY += 15;
HeaderGap(rank, cursorY) ==
    IF rank = 1 /\ cursorY > Pt(margin) THEN Pt(20)
    ELSE IF rank = 2 /\ cursorY > Pt(margin) THEN Pt(15)
    ELSE 0

\* splitText.length * (pdf.getFontSize() * 1.15)
TextHeight(rows, rank) == rows * (FontSize(rank) * 115)

\* variant: cursorY + textHeight > pageHeight
OverflowsPage(cursorY, textHeight) == cursorY + textHeight > a4Height
\* if (cursorY + textHeight > pageHeight - margin)
Overflows(cursorY, textHeight) == cursorY + textHeight > a4Height - Pt(margin)

\* The for loop from its i-th line on, with the cursor at cursorY on the last
\* of pages pages, and placed the blocks drawn so far.  A block is the line
\* it draws, the page and height it is drawn at, its height, and the cursor
\* the overflow test found.
RECURSIVE Flow(_, _, _, _, _, _)
Flow(lines, rows, i, cursorY, pages, placed) ==
    IF i > Len(lines) THEN [pages |-> pages, placed |-> placed]
    ELSE LET rank == HeaderRank(Trim(lines[i]))
             tested == cursorY + HeaderGap(rank, cursorY)
             textHeight == TextHeight(rows[i], rank)
             break == Overflows(tested, textHeight)
             page == IF break THEN pages + 1 ELSE pages
             y == IF break THEN Pt(margin) ELSE tested
         IN  Flow(lines, rows, i + 1, y + textHeight, page,
                  Append(placed, [line |-> i, page |-> page, y |-> y,
                                  height |-> textHeight, tested |-> tested]))

\* exportToPDF after its cover page: if (bookContent) { pdf.addPage(); ... }
PdfOf(content, rows) ==
    IF content # <<>>
    THEN Flow(Split(content), rows, 1, Pt(margin), 2, <<>>)
    ELSE [pages |-> 1, placed |-> <<>>]

\* exportToPDF: the pages and the blocks of the document it saves
ExportToPDF ==
    /\ pdfDoc' = <<PdfOf(bookChars, pdfRows)>>
    /\ UNCHANGED <<bookChars, docChildren, mdFile, pdfRows, htmlContent>>
    /\ UNCHANGED <<navVars, expVars, genVars, appVars, draftVars>>

\* lines of the manuscripts given to exportToPDF
PdfSampleLines ==
    { <<>>,
      <<"x">>,
      <<"#", " ", "x">>,
      <<"#", "#", " ", "x">>,
      <<"#", "#", "#", " ", "x">> }

\* rows a line may wrap into: one, half a page of body text (two such lines
\* end in the bottom margin), more than a page
RowChoices == {1, 28, 60}

\* a viewer given a manuscript of up to MaxLines lines and the rows each line
\* wraps into, nothing exported yet
InitPdf ==
    /\ NavInit /\ ExpInit /\ GenInit /\ DraftInit /\ OpenedInit /\ hasCover = TRUE
    /\ bookChars \in { Join(ls) : ls \in UNION { [1..n -> PdfSampleLines] : n \in 0..MaxLines } }
    /\ pdfRows \in [1..Len(Split(bookChars)) -> RowChoices]
    /\ docChildren = <<>>
    /\ mdFile = <<>>
    /\ pdfDoc = <<>>
    /\ htmlContent = <<>>

NextPdf == ExportToPDF

\* the document exportToPDF writes for a manuscript
SpecPdf == InitPdf /\ [][NextPdf]_vars

--------------------------------------------------------------------------
(* The rendered HTML: the effect on bookContent.                           *)
(*                                                                         *)
(* marked is a library: of marked.parse only this is used, that the empty  *)
(* string renders to the empty string and that the HTML of a text is a     *)
(* function of the text.                                                   *)

\* marked.parse(markdown)
MarkedParse(markdown) == IF markdown = <<>> THEN <<>> ELSE <<"marked", markdown>>

\* useEffect(() => { if (bookContent) setHtmlContent(marked.parse(bookContent)) },
\* [bookContent]): htmlContent once the effect has run for a bookContent
HtmlAfter(content) == IF content # <<>> THEN MarkedParse(content) ELSE htmlContent

\* The viewer is rendered with another bookContent and the effect runs.
BookContentChanges(content) ==
    /\ content # bookChars
    /\ bookChars' = content
    /\ htmlContent' = HtmlAfter(content)
    /\ UNCHANGED <<docChildren, mdFile, pdfRows, pdfDoc>>
    /\ UNCHANGED <<navVars, expVars, genVars, appVars, draftVars>>

\* lines of the bodies given to the viewer
BodySampleLines ==
    PdfSampleLines \cup { <<" ">>, <<"#", "x">>, <<"U+00E9">> }

\* the bodies of up to MaxLines lines, the empty body among them
Bodies == { Join(ls) : ls \in UNION { [1..n -> BodySampleLines] : n \in 0..MaxLines } }

\* a viewer mounted with a body, after the effect has run for it
InitRender ==
    /\ NavInit /\ ExpInit /\ GenInit /\ DraftInit /\ OpenedInit /\ hasCover = TRUE
    /\ bookChars \in Bodies
    /\ htmlContent = MarkedParse(bookChars)
    /\ docChildren = <<>>
    /\ mdFile = <<>>
    /\ pdfRows = <<>>
    /\ pdfDoc = <<>>

NextRender == \E content \in Bodies : BookContentChanges(content)

\* the viewer's rendered HTML as its bookContent prop changes
SpecRender == InitRender /\ [][NextRender]_vars

--------------------------------------------------------------------------
(* Claims about navigation and pagination. *)

\* the last spread of the spec's navigator: ceil(PageCount / 2), as the least
\* n with 2n >= PageCount
LastSpread == CHOOSE n \in 0..totalContentPages :
                  /\ 2 * n >= totalContentPages
                  /\ \A m \in 0..totalContentPages : 2 * m >= totalContentPages => n <= m

\* C1: in every reachable state the spread index is an integer with
\* 0 <= currentPage <= ceil(PageCount / 2).
C1_SpreadIndexInRange == currentPage \in 0..LastSpread

\* a step in which a next() request schedules a page turn
NextRequested == Len(pageTimers') > Len(pageTimers) /\ Head(pageTimers') = currentPage + 1

\* C2: next() moves Cover to Spread(1) and Spread(k) to Spread(k+1) only when
\* k < ceil(PageCount / 2); at the last spread it is a no-op, so no step
\* schedules an advance from the last spread.
C2_NextNoOpAtLastSpread ==
    [][NextRequested => (currentPage = 0 \/ currentPage < LastSpread)]_vars

\* ceil(h / v) of the spec, as the least n with n * v >= h
CeilOf(h, v) == CHOOSE n \in 0..h : n * v >= h /\ \A m \in 0..h : m * v >= h => n <= m
MaxOf(a, b) == IF a >= b THEN a ELSE b

\* C9: for every extent h >= 0 and content-area height v > 0, a pagination
\* measurement sets PageCount to max(1, ceil(h / v)); h = 0 gives 1.
C9_MeasureSetsPageCount ==
    measured # <<>> =>
        /\ measured[2] > 0
        /\ totalContentPages = MaxOf(1, CeilOf(measured[1], measured[2]))

\* a measurement of 3 units of content against a page of 2 gave 2 pages
C9_Witness == measured = <<3, 2>> /\ totalContentPages = 2

\* C10: PageCount is at least 1 in every reachable state: initially, after
\* measuring empty content, after an attempt with a zero-height viewport.
C10_PageCountAtLeastOne == totalContentPages >= 1

\* empty content was measured against a positive page height, and the layout
\* has since collapsed to height zero
C10_Witness ==
    /\ measured # <<>>
    /\ measured[1] = 0
    /\ areaHeight = 0
    /\ totalContentPages = 1

\* a trigger of the pagination measurement: fonts ready, the settle timer, a resize
MeasurementTrigger ==
    \/ SettleTick
    \/ \E h \in 0..MaxExtent, v \in 0..MaxViewport : HandleResize(h, v)

\* C26: a measurement that finds the viewport unmounted or its content-area
\* height not positive is skipped: PageHeight and PageCount keep their values
\* and nothing is shown to the user; a trigger that finds a positive height
\* sets PageHeight to it and PageCount to max(1, ceil(h / v)).
C26_SkippedMeasurementKeepsValues ==
    [][MeasurementTrigger =>
          IF areaHeight' > 0
          THEN /\ pageHeight' = areaHeight'
               /\ totalContentPages' = MaxOf(1, CeilOf(contentHeight', areaHeight'))
          ELSE /\ UNCHANGED <<pageHeight, totalContentPages>>
               /\ UNCHANGED <<lastFailure, error>>]_vars

\* 3 units measured against a page of 2 gave 2 pages; the layout then
\* collapsed to height zero with 4 units of content, and the resize that
\* measured it kept both values
C26_Witness ==
    /\ areaHeight = 0
    /\ contentHeight = 4
    /\ measured = <<3, 2>>
    /\ pageHeight = 2
    /\ totalContentPages = 2

\* C11: whenever the viewer shows Spread(k), k >= 1, the left side shows
\* logical page 2k-1, and the right side shows logical page 2k if and only
\* if 2k <= PageCount; otherwise the right side is blank.
C11_RightPageRule ==
    currentPage >= 1 =>
        /\ SpreadRendered
        /\ leftPageNum = 2 * currentPage - 1
        /\ RightPageRendered <=> (2 * currentPage <= totalContentPages)
        /\ RightPageRendered => rightPageNum = 2 * currentPage

\* three pages, spread 2: the left side shows page 3, the right side is blank
C11_Witness ==
    /\ totalContentPages = 3
    /\ currentPage = 2
    /\ leftPageNum = 3
    /\ ~RightPageRendered

\* a step in which a prev() request schedules a page turn
PrevRequested ==
    /\ Len(navRequests') > Len(navRequests)
    /\ navRequests'[Len(navRequests')].op = "prev"
\* a step in which the page turn of a prev() request completes
PrevCompleted ==
    /\ Len(navRequests') < Len(navRequests)
    /\ Head(navRequests).op = "prev"

\* C12: prev() moves Spread(1) to Cover and Spread(k) to Spread(k-1) for
\* k > 1, and at Cover it is a no-op: the spread index, shown or scheduled,
\* is never negative, and no prev() transition is started from Cover.
C12_PrevStopsAtCover ==
    /\ [](/\ currentPage >= 0
          /\ \A i \in DOMAIN pageTimers : pageTimers[i] >= 0)
    /\ [][PrevRequested =>
            /\ currentPage > 0
            /\ pageTimers'[Len(pageTimers')] = currentPage - 1]_vars
    /\ [][PrevCompleted =>
            /\ currentPage >= 1
            /\ currentPage' = currentPage - 1]_vars

\* a prev() from Spread(1) has completed and the viewer shows the cover
C12_Witness ==
    /\ turns # <<>>
    /\ turns[Len(turns)] = [op |-> "prev", from |-> 1]
    /\ currentPage = 0
    /\ CoverRendered

\* C13: a completed next() followed by a completed prev() returns the
\* navigator to the spread index the next() started from.
C13_NextThenPrevReturns ==
    (Len(turns) = 2 /\ turns[1].op = "next" /\ turns[2].op = "prev") =>
        currentPage = turns[1].from

\* next() from Spread(1), then prev() from Spread(2): back at Spread(1)
C13_Witness ==
    /\ turns = <<[op |-> "next", from |-> 1], [op |-> "prev", from |-> 2]>>
    /\ currentPage = 1

\* C14: totalSpreads equals ceil(PageCount / 2), and totalSpreads + 1 next()
\* calls from Cover leave the navigator at the last spread,
\* Spread(totalSpreads).
C14_NextRunEndsAtLastSpread ==
    /\ totalSpreads = LastSpread
    /\ (nextRun # <<>> /\ nextRun[1] = totalSpreads + 1) => currentPage = LastSpread

\* C15: while a page turn is in flight a further next() or prev() request
\* is not taken: at most one index update is pending at any time, no request
\* is scheduled while one is pending, and each completed page turn changes
\* the spread index by exactly 1 from the index shown when it completes.
C15_OneTransitionInFlight ==
    /\ [](Len(pageTimers) <= 1)
    /\ [][pageTimers # <<>> => Len(pageTimers') <= Len(pageTimers)]_vars
    /\ [][Len(pageTimers') < Len(pageTimers) =>
            (currentPage' = currentPage + 1 \/ currentPage' = currentPage - 1)]_vars

\* one page turn has completed and the next one is in flight
C15_Witness ==
    /\ turns # <<>>
    /\ Len(pageTimers) = 1
    /\ isAnimating

\* C16: the spread index changes only while the content is hidden: a step
\* that changes currentPage starts with isAnimating true, and the step that
\* makes the content visible again is the one that sets the scheduled index.
C16_IndexChangesWhileHidden ==
    /\ [][currentPage' # currentPage => isAnimating]_vars
    /\ [][(isAnimating /\ ~isAnimating') => currentPage' = Head(pageTimers)]_vars

\* a page turn to Spread(1) has completed and the content is visible again
C16_Witness ==
    /\ Len(turns) = 1
    /\ currentPage = 1
    /\ ~isAnimating

\* C17: every time a manuscript is opened in the viewer the navigator starts
\* at Cover: a step after which the viewer shows a manuscript it did not show
\* before leaves the spread index at 0.
C17_OpensAtCover ==
    [][(bookContent' # bookContent /\ bookContent' # 0) => currentPage' = 0]_vars

--------------------------------------------------------------------------
(* Claims about the export pipeline and the docx loader. *)

\* C3: at most one export is in flight at any time: a handleExport call made
\* while an earlier one has not returned is rejected or deferred.
C3_AtMostOneExportInFlight == Len(exports) <= 1

\* a step in which a handleExport call starts
ExportStarted == Len(exports') > Len(exports)

\* C4: for each format the exporting indicator is set when the export starts,
\* and once the export's asynchronous steps settle, by success or by failure,
\* the indicator is cleared: it is null whenever no export is in flight, and
\* an indicator that is set is eventually cleared.
C4_IndicatorSetThenCleared ==
    /\ [][ExportStarted =>
            exporting' = ExportingMessage(exports'[Len(exports')].fmt)]_vars
    /\ [](exports = <<>> => exporting = "null")
    /\ (exporting # "null" ~> exporting = "null")

\* an export has failed and the viewer is not exporting
C4_Witness == lastFailure # <<>> /\ exports = <<>> /\ exporting = "null"

\* C5: calls of the loader made while the library is not loaded share one
\* fetch: at most one script is in flight, every caller waiting for the
\* loader awaits that script's promise, the one held in docxPromise, and a
\* call made while a script is in flight inserts no other.
C5_SingleFlight ==
    /\ [](/\ Cardinality(scripts) <= 1
          /\ \A i \in DOMAIN exports :
                exports[i].pc = "scriptLoad" =>
                    /\ exports[i].p \in scripts
                    /\ exports[i].p = docxPromise)
    /\ [][(ExportStarted /\ scripts # {}) =>
            /\ fetchSeq' = fetchSeq
            /\ scripts' = scripts]_vars

\* two callers wait on the one fetch in flight
C5_Witness ==
    /\ Len(exports) = 2
    /\ \A i \in DOMAIN exports : exports[i].pc = "scriptLoad"
    /\ Cardinality(scripts) = 1
    /\ fetchSeq = 1

\* a docx export starts while the library is missing and no fetch is in flight
FreshLoaderCall ==
    /\ ExportStarted
    /\ exports'[Len(exports')].fmt = "docx"
    /\ ~windowDocx
    /\ scripts = {}

\* C6: a failed fetch resets the shared slot: the slot never holds the promise
\* of a fetch that has failed, so the next loader call inserts a new script
\* and waits for it; a later successful fetch makes the library available.
C6_RetryAfterFailure ==
    /\ [](docxPromise # 0 => (docxPromise \in scripts \/ windowDocx))
    /\ [][FreshLoaderCall =>
            /\ fetchSeq' = fetchSeq + 1
            /\ scripts' = {fetchSeq'}
            /\ exports'[Len(exports')].p = fetchSeq']_vars

\* the first fetch failed, a second one was started and loaded the library
C6_Witness == fetchSeq = 2 /\ windowDocx /\ lastFailure = <<"docx", 2>>

\* the last thing the export pipeline did was to return by failure
ExportJustFailed == justReturned # <<>> /\ ~justReturned.ok

\* C18: when an export of any format fails, an alert naming that format has
\* been raised, and afterwards the viewer remains usable: the exporting
\* indicator is null, the failed call is gone, the spread index and
\* PageCount are as the failing step found them, and next(), prev() and
\* export() can be requested as before.
C18_FailureLeavesViewerUsable ==
    /\ [](ExportJustFailed =>
            /\ lastFailure # <<>>
            /\ lastFailure[1] = justReturned.fmt
            /\ lastFailure[2] >= 1
            /\ exporting = "null"
            /\ Len(exports) < MaxInFlight
            /\ TaskBoundary
            /\ \A f \in Formats \ {"docx"} : ENABLED HandleExport(f)
            /\ fetchSeq < MaxFetches => ENABLED HandleExport("docx")
            /\ (ENABLED HandleNextPage) <=> (currentPage <= totalSpreads /\ ~isAnimating)
            /\ (ENABLED HandlePrevPage) <=> (currentPage > 0 /\ ~isAnimating))
    /\ [][(Len(exports') < Len(exports) /\ justReturned' # <<>> /\ ~justReturned'.ok) =>
            /\ currentPage' = currentPage
            /\ totalContentPages' = totalContentPages
            /\ isAnimating' = isAnimating]_vars

\* a pdf export has just failed at Spread(1), no other export is in flight
C18_Witness ==
    /\ justReturned = [fmt |-> "pdf", ok |-> FALSE]
    /\ lastFailure = <<"pdf", 1>>
    /\ exports = <<>>
    /\ currentPage = 1

\* C27: each failed export produces exactly one alert: for every format and
\* every cause of failure, the failing invocation raised one alert.
C27_OneAlertPerFailedExport == lastFailure # <<>> => lastFailure[2] = 1

--------------------------------------------------------------------------
(* Claims about assembling the book and opening the viewer. *)

\* a step in which an assembly succeeds, and one in which it fails
AssemblySucceeded == bookSeq' = bookSeq + 1
AssemblyFailed == assembling' < assembling /\ bookSeq' = bookSeq

\* C24: a successful assembly adds exactly one new entry for the completed
\* book at the front of the book history and opens the viewer on that
\* manuscript; a failed assembly leaves the history unchanged, does not open
\* the viewer and shows an error; the viewer is never open without a
\* manuscript.
C24_AssemblyOpensTheNewBook ==
    /\ [][AssemblySucceeded =>
            /\ bookHistory' = <<bookSeq'>> \o bookHistory
            /\ ViewerMounted'
            /\ bookContent' = bookSeq']_vars
    /\ [][AssemblyFailed =>
            /\ bookHistory' = bookHistory
            /\ isViewerOpen' = isViewerOpen
            /\ viewingHistory' = viewingHistory
            /\ error']_vars
    /\ [](ViewerMounted => bookContent # 0)

--------------------------------------------------------------------------
(* Claims about what the exports write. *)

\* the code points of a string
CodePoints(s) == [i \in DOMAIN s |-> CodePoint(s[i])]

\* the code points a UTF-8 byte sequence of the basic plane stands for
RECURSIVE Utf8Decode(_)
Utf8Decode(b) ==
    IF b = <<>> THEN <<>>
    ELSE IF b[1] < 128
    THEN <<b[1]>> \o Utf8Decode(SubSeq(b, 2, Len(b)))
    ELSE IF b[1] < 224
    THEN <<(b[1] - 192) * 64 + (b[2] - 128)>> \o Utf8Decode(SubSeq(b, 3, Len(b)))
    ELSE <<(b[1] - 224) * 4096 + (b[2] - 128) * 64 + (b[3] - 128)>>
             \o Utf8Decode(SubSeq(b, 4, Len(b)))

\* C19: raw-markup export emits exactly the manuscript body the viewer was
\* given: the exported file, read back, is the manuscript's text character
\* for character, with nothing added, removed or filtered.
C19_MdExportIsVerbatim ==
    mdFile # <<>> => Utf8Decode(mdFile[1]) = CodePoints(bookChars)

\* exported: a manuscript of a cover-image line and a line outside ASCII
C19_Witness ==
    /\ mdFile # <<>>
    /\ Split(bookChars) = << CoverPrefix \o <<"(", "x", ")">>, <<"U+00E9", "U+2014">> >>

\* the rank of the heading marker a trimmed line starts with: 1, 2 or 3 '#'
\* and then a space; 0 if it starts with none of the three
MarkerRank(t) ==
    IF \E r \in 1..3 : Len(t) > r /\ t[r + 1] = " " /\ \A j \in 1..r : t[j] = "#"
    THEN CHOOSE r \in 1..3 : Len(t) > r /\ t[r + 1] = " " /\ \A j \in 1..r : t[j] = "#"
    ELSE 0

\* HeadingLevel of a rank
HeadingOfRank(r) ==
    CASE r = 1 -> "HEADING_1" [] r = 2 -> "HEADING_2" [] r = 3 -> "HEADING_3"

\* C20: styled-document export emits, after the title, byline and spacer,
\* exactly one paragraph per retained body line, in line order: a line whose
\* trimmed text starts with '# ', '## ' or '### ' becomes a heading of rank
\* 1, 2 or 3 with the marker removed, a blank line becomes a spacer
\* paragraph, every other line ('####', '#x' included) a body paragraph.
C20_DocxOneParagraphPerLine ==
    docChildren # <<>> =>
        /\ Len(docChildren) = 3 + Len(contentLines)
        /\ docChildren[1].heading = "TITLE" /\ docChildren[1].text = bookTitle
        /\ docChildren[2].heading = "HEADING_2"
        /\ docChildren[2].text = <<"b", "y", " ">> \o author
        /\ docChildren[3] = SpacerParagraph
        /\ \A i \in DOMAIN contentLines :
              LET t == Trim(contentLines[i])
                  r == MarkerRank(t)
                  para == docChildren[3 + i]
              IN  IF r > 0
                  THEN /\ para.heading = HeadingOfRank(r)
                       /\ para.text = Trim(SubSeq(t, r + 2, Len(t)))
                       /\ para.runs = <<>>
                  ELSE IF \A j \in DOMAIN contentLines[i] : contentLines[i][j] \in WhiteSpace
                  THEN para = SpacerParagraph
                  ELSE /\ para.heading = "none"
                       /\ para.text = <<>>
                       /\ para.runs = <<t>>

\* exported: a manuscript of a rank-2 heading and a line '#x'
C20_Witness ==
    /\ docChildren # <<>>
    /\ Split(bookChars) = << <<"#", "#", " ", "x">>, <<"#", "x">> >>
    /\ docChildren[4] = HeadingParagraph(<<"x">>, "HEADING_2")
    /\ docChildren[5] = BodyParagraph(<<"#", "x">>)

\* a line that is the cover-image reference and nothing else:
\* '![Front Cover](' then the image data then ')'
IsCoverReference(line) ==
    /\ StartsWith(line, CoverPrefix \o <<"(">>)
    /\ line[Len(line)] = ")"
    /\ \A j \in (Len(CoverPrefix) + 2)..(Len(line) - 1) : line[j] \notin WhiteSpace \cup {")"}

\* C21: in styled-document export a body line is dropped before conversion
\* if and only if it consists solely of the cover-image reference, so no
\* line carrying other text is lost: the document holds, after its three
\* header paragraphs, one paragraph for every line that is not the reference.
C21_OnlyCoverReferenceDropped ==
    docChildren # <<>> =>
        Len(docChildren) =
            3 + Len(SelectSeq(Split(bookChars), LAMBDA line : ~IsCoverReference(line)))

\* the page and the cursor the i-th line of a flow finds: the first content
\* page and its top margin, or where the line before it ended
PageBefore(placed, i) == IF i = 1 THEN 2 ELSE placed[i - 1].page
CursorBefore(placed, i) ==
    IF i = 1 THEN Pt(margin) ELSE placed[i - 1].y + placed[i - 1].height

C29_NoBlockPastBottomMargin ==
    pdfDoc # <<>> =>
        LET placed == pdfDoc[1].placed
        IN  \A i \in DOMAIN placed :
                /\ placed[i].y + placed[i].height <= a4Height - Pt(margin)
                /\ placed[i].page # PageBefore(placed, i) =>
                       CursorBefore(placed, i) > Pt(margin)

--------------------------------------------------------------------------
(* Claims about the draft in local storage. *)

\* C28: the draft round-trips across a reload: after the app mounts, the
\* draft it restores (title, chapters, ...) equals the draft most
\* recently written to local storage before the reload; the mount sequence
\* does not overwrite the stored draft with default values before it is read.
C28_DraftSurvivesReload ==
    [][Reload => (progress # <<>> /\ SavedState' = progress[1])]_vars

--------------------------------------------------------------------------
(* Claims about chapter generation. *)

\* the requests in flight that the "generate all" run made
RunRequests == {q \in BagToSet(gens) : q.byRun}

\* C7: during a "generate all" run, the request for chapter i (i > 0) is given
\* as continuity context the text chapter i-1 holds when the request starts,
\* text produced for chapter i-1 earlier in the same run included.
C7_ContextIsPreviousText ==
    \A q \in RunRequests : q.index > 1 => q.ctx = q.prev

\* C8: a "generate all" run issues its requests in increasing chapter order,
\* starts none before the one before it has settled, and never has two in
\* flight: at most one request of the run is in flight, it is the one for
\* the chapter the loop stands at, and the loop only moves forward.
C8_RunIsSequential ==
    /\ [](\A q \in RunRequests :
             /\ CopiesIn(q, gens) = 1
             /\ RunRequests = {q}
             /\ run.active
             /\ q.index = run.i)
    /\ [][(run.active /\ run'.active /\ run'.i # run.i) =>
             /\ run'.i > run.i
             /\ \A q \in BagToSet(gens') : q.byRun => q.index = run'.i]_vars

\* the run has chapter 1 behind it, settled, and awaits chapter 2
C8_Witness ==
    /\ run.active
    /\ run.i = 2
    /\ chapters[1].status \in {"done", "error"}
    /\ \E q \in RunRequests : q.index = 2

\* a step in which the text of a chapter is edited by hand: the chapters
\* change while no request is made or settled
ChapterEdited ==
    /\ chapters' # chapters
    /\ gens' = gens
    /\ run' = run
    /\ tocCall' = tocCall

\* C23: the "Assemble Final Book" action is enabled if and only if there is
\* at least one chapter and every chapter has status 'done': it is disabled
\* while any chapter is 'pending', 'generating' or 'error'; editing a
\* chapter's text by hand does not change its status.
C23_AssembleEnabledWhenAllDone ==
    /\ []((ENABLED HandleAssembleBook) <=>
            /\ Len(chapters) >= 1
            /\ ~\E i \in DOMAIN chapters :
                   chapters[i].status \in {"pending", "generating", "error"}
            /\ \A i \in DOMAIN chapters : chapters[i].status = "done")
    /\ [][ChapterEdited =>
            /\ Len(chapters') = Len(chapters)
            /\ \A i \in DOMAIN chapters : chapters'[i].status = chapters[i].status]_vars

\* both chapters are done, the first with its text emptied by hand: the
\* action is enabled
C23_Witness ==
    /\ Len(chapters) = 2
    /\ chapters[1] = [content |-> "", status |-> "done"]
    /\ chapters[2].status = "done"
    /\ ENABLED HandleAssembleBook

\* a step in which the request req settles
RequestSettles(req) == CopiesIn(req, gens') < CopiesIn(req, gens)

\* the first chapter after chapter i that the run's array shows as neither
\* done nor in generation
NextOfRun(snap, i) ==
    CHOOSE j \in Remaining(snap, i) : \A k \in Remaining(snap, i) : j <= k

\* C30: chapter status is never stuck in 'generating': a chapter that enters
\* 'generating' has a request in flight and, once the request settles,
\* leaves it for 'done' with the returned text stored or for 'error' with
\* its text unchanged; the loading flag is cleared afterwards; within a
\* "generate all" run a chapter that ends in 'error' does not keep the run
\* from attempting the chapters after it that are not yet done.
C30_GeneratingAlwaysEnds ==
    /\ [](\A i \in DOMAIN chapters :
             chapters[i].status = "generating" =>
                 \E q \in BagToSet(gens) : q.index = i)
    /\ [][\A req \in BagToSet(gens) : RequestSettles(req) =>
             LET before == chapters[req.index]
                 after  == chapters'[req.index]
             IN  \/ after.status = "done" /\ after.content \in ServiceTexts
                 \/ after.status = "error" /\ after.content = before.content]_vars
    /\ [][\A req \in BagToSet(gens) :
             (RequestSettles(req) /\ gens' = gens (-) SetToBag({req})) =>
                 ~isLoading']_vars
    /\ [][\A req \in BagToSet(gens) :
             (/\ RequestSettles(req)
              /\ req.byRun
              /\ chapters'[req.index].status = "error"
              /\ Remaining(run.snap, run.i) # {}) =>
                 LET j == NextOfRun(run.snap, run.i)
                 IN  /\ run'.active
                     /\ run'.i = j
                     /\ chapters'[j].status = "generating"
                     /\ \E q \in BagToSet(gens') : q.byRun /\ q.index = j]_vars
    /\ \A i \in 1..NumChapters :
          (i \in DOMAIN chapters /\ chapters[i].status = "generating")
              ~> (i \in DOMAIN chapters /\ chapters[i].status \in {"done", "error"})
    /\ (\E i \in DOMAIN chapters : chapters[i].status = "generating") ~> ~isLoading

\* the run's request for chapter 1 ended in 'error', its text as it was, and
\* the run has gone on to chapter 2
C30_Witness ==
    /\ run.active
    /\ run.i = 2
    /\ Len(chapters) = 2
    /\ chapters[1] = [content |-> "", status |-> "error"]
    /\ chapters[2].status = "generating"
    /\ \E q \in RunRequests : q.index = 2

==========================================================================
